---------------------------- MODULE Spec2Model ----------------------------
(***************************************************************************)
(* Task lifecycle of the productivity backend: the tasks table, the clock  *)
(* read through datetime.utcnow(), and the task endpoints of               *)
(* backend/app/routers/tasks.py acting on backend/app/models/task.py;      *)
(* the streak rows of backend/app/models/streak.py; the away periods of    *)
(* backend/app/routers/away_periods.py; and the calendar calls a task      *)
(* completion makes.                                                       *)
(*                                                                         *)
(* Time is counted in minutes since 2024-01-01 00:00 UTC.  A request is    *)
(* served at one instant: every utcnow() read inside one handler returns   *)
(* the same value.                                                         *)
(***************************************************************************)
EXTENDS Integers, FiniteSets, Sequences, TLC

VARIABLES tasks, nextId, tick, resp,
          streaks, away_periods, nextPeriodId,
          google_refresh_token, calls, users, event_marks, inflight

vars == <<tasks, nextId, tick, resp, streaks, away_periods, nextPeriodId,
          google_refresh_token, calls, users, event_marks, inflight>>

\* what no task endpoint writes: the away_periods table and the requests in
\* flight on it, and the users table with its google_refresh_token, which
\* only the OAuth callback sets
elsewhere == <<away_periods, nextPeriodId, google_refresh_token, users, inflight>>

(***************************************************************************)
(* Bounds of the model.                                                    *)
(***************************************************************************)
\* rows the tasks table may ever receive (ids 1..MaxTasks)
MaxTasks == 1
\* number of clock readings of the timeline at which requests are served
MaxTick == 5
\* completions a streak counts before the model stops counting
MaxStreak == 91
\* rows the away_periods table may ever receive (ids 1..MaxPeriods)
MaxPeriods == 2

(***************************************************************************)
(* Values.                                                                 *)
(***************************************************************************)
\* Python's None / SQL NULL in a nullable column
NULL == 0 - 1

\* class TaskType
DAILY == "daily"
WEEKLY == "weekly"
MONTHLY == "monthly"
LONG_TERM == "long_term"
GYM_WORKOUT == "gym_workout"
TaskType == {DAILY, WEEKLY, MONTHLY, LONG_TERM, GYM_WORKOUT}

\* class TaskStatus
PENDING == "pending"
COMPLETED == "completed"
SUGGESTED == "suggested"
TaskStatus == {PENDING, COMPLETED, SUGGESTED}

\* the authenticated principals (users.id)
Users == {1, 2}

(***************************************************************************)
(* The clock and the calendar arithmetic of datetime.                      *)
(***************************************************************************)
MinutesPerDay == 24 * 60

\* The first clock readings of the timeline; after them the clock moves on a
\* day at a time.
\*   1: 2024-01-24 23:59
\*   2: 2024-01-31 23:58   (6 d 23 h 59 min after 1)
\*   3: 2024-01-31 23:59   (7 d 0 h 0 min after 1, same day as 2)
\*   4: 2024-02-01 00:01   (2 min after 3, next day, next month)
\*   5: 2025-01-31 12:00   (same month number as 1..3, next year)
Timeline ==
    << 23 * MinutesPerDay + 23 * 60 + 59,
       30 * MinutesPerDay + 23 * 60 + 58,
       30 * MinutesPerDay + 23 * 60 + 59,
       31 * MinutesPerDay + 1,
       (366 + 30) * MinutesPerDay + 12 * 60 >>

Instant(i) ==
    IF i <= Len(Timeline) THEN Timeline[i]
    ELSE Timeline[Len(Timeline)] + (i - Len(Timeline)) * MinutesPerDay

\* datetime.utcnow()
utcnow == Instant(tick)

IsLeap(y) == (y % 4 = 0 /\ y % 100 # 0) \/ y % 400 = 0

DaysInYear(y) == IF IsLeap(y) THEN 366 ELSE 365

DaysInMonth(y, m) ==
    IF m = 2 THEN (IF IsLeap(y) THEN 29 ELSE 28)
    ELSE IF m \in {4, 6, 9, 11} THEN 30 ELSE 31

\* datetime.date(): the calendar day, as days since 2024-01-01
date(t) == t \div MinutesPerDay

RECURSIVE YearFrom(_, _)
YearFrom(y, d) ==
    IF d < DaysInYear(y) THEN [year |-> y, yday |-> d]
    ELSE YearFrom(y + 1, d - DaysInYear(y))

RECURSIVE MonthFrom(_, _, _)
MonthFrom(y, m, d) ==
    IF d < DaysInMonth(y, m) THEN m ELSE MonthFrom(y, m + 1, d - DaysInMonth(y, m))

\* datetime.year
year(t) == YearFrom(2024, date(t)).year

\* datetime.month
month(t) == LET yd == YearFrom(2024, date(t)) IN MonthFrom(yd.year, 1, yd.yday)

\* timedelta.days of the difference d (in minutes): floor division
days(d) == d \div MinutesPerDay

(***************************************************************************)
(* models/task.py: the Task row and its methods.                           *)
(***************************************************************************)
\* Task(user_id=..., **task_data.model_dump()) with the column defaults
NewTask(id, user_id, data) ==
    [ id |-> id,
      user_id |-> user_id,
      type |-> data.type,
      status |-> PENDING,
      is_recurring |-> data.is_recurring,
      last_reset_date |-> NULL,
      pause_on_away |-> data.pause_on_away,
      due_date |-> data.due_date,
      completed_at |-> NULL,
      calendar_event_id |-> NULL ]

\* mutant: only a Pending task is completed
mark_complete_only_pending(t, now) ==
    IF t.status = PENDING THEN [t EXCEPT !.status = COMPLETED, !.completed_at = now]
    ELSE t

mark_complete(t, now) ==
    [t EXCEPT !.status = COMPLETED, !.completed_at = now]

\* mutant: going back to Pending also forgets the last reset
mark_pending_clears_reset(t) ==
    [t EXCEPT !.status = PENDING, !.completed_at = NULL, !.last_reset_date = NULL]

mark_pending(t) ==
    [t EXCEPT !.status = PENDING, !.completed_at = NULL]

\* mutant: the status is not looked at
not_resettable_ignores_status(t) == ~t.is_recurring

\* if not self.is_recurring or self.status != TaskStatus.COMPLETED: return False
not_resettable(t) == ~t.is_recurring \/ t.status # COMPLETED

\* check_time = self.last_reset_date or self.completed_at
check_time(t) ==
    IF t.last_reset_date # NULL THEN t.last_reset_date ELSE t.completed_at

\* Daily tasks: check_time.date() < now.date()
daily_due(check, now) == date(check) < date(now)

\* mutant: more than 7 whole days
weekly_due_strict(check, now) == days(now - check) > 7

\* Weekly tasks: (now - check_time).days >= 7
weekly_due(check, now) == days(now - check) >= 7

\* mutant: the year is not compared
monthly_due_ignores_year(check, now) == month(check) # month(now)

\* Monthly tasks: check_time.month != now.month or check_time.year != now.year
monthly_due(check, now) ==
    month(check) # month(now) \/ year(check) # year(now)

should_reset(t, now) ==
    IF not_resettable(t) THEN FALSE
    ELSE IF check_time(t) = NULL THEN FALSE
    ELSE IF t.type = DAILY THEN daily_due(check_time(t), now)
    ELSE IF t.type = WEEKLY THEN weekly_due(check_time(t), now)
    ELSE IF t.type = MONTHLY THEN monthly_due(check_time(t), now)
    ELSE FALSE

\* mutant: the reset is not stamped
reset_recurring_no_stamp(t, now) == mark_pending(t)

reset_recurring(t, now) ==
    [mark_pending(t) EXCEPT !.last_reset_date = now]

(***************************************************************************)
(* routers/tasks.py: the endpoints.                                        *)
(***************************************************************************)
\* mutant: the task is looked up by id alone
OwnedTask_of_anyone(task_id, user) == {t \in tasks : t.id = task_id}

\* db.query(Task).filter(Task.id == task_id, Task.user_id == current_user.id)
OwnedTask(task_id, user) == {t \in tasks : t.id = task_id /\ t.user_id = user}

\* what the client gets back from the endpoint op: the HTTP status code and,
\* from the sweep, the "reset_count" of the body
Response(op, code, count) == [op |-> op, code |-> code, reset_count |-> count]

\* no request has been served at the current instant
NoResponse == Response("none", NULL, 0)

\* raise HTTPException(status_code=404, detail="Task not found")
NotFound(op) ==
    /\ resp' = Response(op, 404, 0)
    /\ UNCHANGED <<tasks, nextId, tick, calls, streaks, event_marks, elsewhere>>

\* what the client gets back from a read endpoint: the HTTP status code and
\* the ids of the tasks in the body; for the listing, also the caller and
\* the status filter of the request
ReadResponse(op, code, user, status, ids) ==
    [op |-> op, code |-> code, user |-> user, status |-> status, ids |-> ids]

\* what no read endpoint writes
ReadOnly == UNCHANGED <<tasks, nextId, tick, calls, streaks, event_marks, elsewhere>>

\* status: TaskStatus = None, the query parameter left out
NoStatus == "none"

\* db.query(Task).filter(Task.user_id == current_user.id), and
\* .filter(Task.status == status) if a status is given; skip = 0 and the
\* limit above the size of the table
Listed(T, user, status) ==
    {t \in T : t.user_id = user /\ (status = NoStatus \/ t.status = status)}

get_tasks(user, status) ==
    /\ resp' = ReadResponse("get_tasks", 200, user, status,
                            {t.id : t \in Listed(tasks, user, status)})
    /\ ReadOnly

get_task(user, task_id) ==
    /\ IF OwnedTask(task_id, user) = {}
       THEN resp' = Response("get_task", 404, 0)
       ELSE resp' = ReadResponse("get_task", 200, user, NoStatus, {task_id})
    /\ ReadOnly

create_task(user, data) ==
    /\ nextId <= MaxTasks
    /\ tasks' = tasks \cup {NewTask(nextId, user, data)}
    /\ nextId' = nextId + 1
    /\ resp' = Response("create_task", 201, 0)
    /\ UNCHANGED <<tick, calls, streaks, event_marks, elsewhere>>

\* setattr(task, field, value) for every field the request body sets
ApplyUpdate(t, update_data) ==
    [f \in DOMAIN t |-> IF f \in DOMAIN update_data THEN update_data[f] ELSE t[f]]

update_task(user, task_id, task_data) ==
    IF OwnedTask(task_id, user) = {} THEN NotFound("update_task")
    ELSE LET t == CHOOSE x \in OwnedTask(task_id, user) : TRUE
         IN  /\ tasks' = (tasks \ {t}) \cup {ApplyUpdate(t, task_data)}
             /\ resp' = Response("update_task", 200, 0)
             /\ UNCHANGED <<nextId, tick, calls, streaks, event_marks, elsewhere>>

\* What the calendar collaborator does while one completion is served:
\*   "not_linked"     the task has no event or the user no refresh token
\*   "init_raised"    constructing the CalendarService raises
\*   "get_raised"     get_event raises (no credentials, refresh or build fails)
\*   "event_missing"  get_event returns None (the API call fails or finds nothing)
\*   "already_done"   the summary of the event already starts with [DONE]
\*   "updated"        update_event succeeds
\*   "update_raised"  update_event raises
LinkedOutcomes ==
    {"init_raised", "get_raised", "event_missing", "already_done", "updated",
     "update_raised"}

\* What the model keeps of an event of the remote calendar: how many times
\* its summary carries the prefix "[DONE] " and its description the note
\* "Completed in Productivity App".  An event as sync_task_to_calendar
\* writes it has the title and the description of the task: neither.
NoMarks == [prefixes |-> 0, notes |-> 0]

\* f"[DONE] {summary}" and f"{current_desc}\n\n... Completed in Productivity App"
MarkDone(marks) == [prefixes |-> marks.prefixes + 1, notes |-> marks.notes + 1]

\* event.get('summary', '').startswith('[DONE]')
startswith_DONE(marks) == marks.prefixes > 0

\* mutant: the event is updated whatever its summary starts with
CalendarOutcomes_unconditional(t, user) ==
    IF t.calendar_event_id # NULL /\ google_refresh_token[user] # NULL
    THEN {"init_raised", "get_raised", "event_missing", "updated", "update_raised"}
    ELSE {"not_linked"}

\* if task.calendar_event_id and current_user.google_refresh_token, and
\* if not event.get('summary', '').startswith('[DONE]')
CalendarOutcomes(t, user) ==
    IF t.calendar_event_id # NULL /\ google_refresh_token[user] # NULL
    THEN {"init_raised", "get_raised", "event_missing"} \cup
         (IF startswith_DONE(event_marks[t.calendar_event_id])
          THEN {"already_done"} ELSE {"updated", "update_raised"})
    ELSE {"not_linked"}

\* The events of the calendar after the calls of one completion: update_event
\* writes the marked summary and description; when it raises, the calendar
\* may or may not have applied the update.
EventsAfter(outcome, t) ==
    LET marked == [event_marks EXCEPT ![t.calendar_event_id] = MarkDone(@)]
    IN  IF outcome = "updated" THEN {marked}
        ELSE IF outcome = "update_raised" THEN {event_marks, marked}
        ELSE {event_marks}

\* one call of the collaborator: its result, and whether the completion was
\* already committed when it was made
Call(name, result, committed) == [call |-> name, result |-> result, committed |-> committed]

\* The calls made before the db.commit() of the handler, in order.  The
\* session is committed earlier only by _get_credentials, when the library
\* reports the credentials expired and refreshes them (refreshed).
CalendarCalls(outcome, refreshed) ==
    IF outcome = "not_linked" THEN <<>>
    ELSE IF outcome = "init_raised" THEN <<Call("CalendarService", "raised", FALSE)>>
    ELSE IF outcome = "get_raised" THEN <<Call("get_event", "raised", FALSE)>>
    ELSE IF outcome = "event_missing" THEN <<Call("get_event", "none", refreshed)>>
    ELSE IF outcome = "already_done" THEN <<Call("get_event", "event", refreshed)>>
    ELSE IF outcome = "updated"
    THEN <<Call("get_event", "event", refreshed), Call("update_event", "event", refreshed)>>
    ELSE <<Call("get_event", "event", refreshed), Call("update_event", "raised", refreshed)>>

\* whether _get_credentials refreshed the tokens: only an outcome that got
\* past the credentials can have
Refreshes(outcome) ==
    IF outcome \in {"event_missing", "already_done", "updated", "update_raised"}
    THEN BOOLEAN ELSE {FALSE}

\* mutant: only the inner try catches
Caught_inner_only(outcome) == outcome # "init_raised"

\* the two except Exception clauses: the outcomes that do not leave the handler
Caught(outcome) == outcome \in LinkedOutcomes \cup {"not_linked"}

complete_task(user, task_id) ==
    IF OwnedTask(task_id, user) = {} THEN NotFound("complete_task")
    ELSE LET t == CHOOSE x \in OwnedTask(task_id, user) : TRUE
         IN  \E outcome \in CalendarOutcomes(t, user) : \E refreshed \in Refreshes(outcome) :
                 /\ calls' = CalendarCalls(outcome, refreshed)
                 /\ event_marks' \in EventsAfter(outcome, t)
                 /\ IF Caught(outcome)
                    THEN \* db.commit(); db.refresh(task); return task
                         /\ tasks' = (tasks \ {t}) \cup {mark_complete(t, utcnow)}
                         /\ resp' = Response("complete_task", 200, 0)
                    ELSE \* the exception leaves the handler and the session
                         \* is closed without a commit
                         /\ tasks' = tasks
                         /\ resp' = Response("complete_task", 500, 0)
                 /\ UNCHANGED <<nextId, tick, streaks, elsewhere>>

uncomplete_task(user, task_id) ==
    IF OwnedTask(task_id, user) = {} THEN NotFound("uncomplete_task")
    ELSE LET t == CHOOSE x \in OwnedTask(task_id, user) : TRUE
         IN  /\ tasks' = (tasks \ {t}) \cup {mark_pending(t)}
             /\ resp' = Response("uncomplete_task", 200, 0)
             /\ UNCHANGED <<nextId, tick, calls, streaks, event_marks, elsewhere>>

\* mutant: the streak of a deleted task stays behind
CascadeStreaks_none(S, deleted) == S

\* Task.streak, cascade="all, delete-orphan": db.delete(task) deletes the
\* streak of the task with it
CascadeStreaks(S, deleted) == {s \in S : s.task_id \notin {t.id : t \in deleted}}

delete_task(user, task_id) ==
    IF OwnedTask(task_id, user) = {} THEN NotFound("delete_task")
    ELSE /\ tasks' = tasks \ OwnedTask(task_id, user)
         /\ streaks' = CascadeStreaks(streaks, OwnedTask(task_id, user))
         /\ resp' = Response("delete_task", 204, 0)
         /\ UNCHANGED <<nextId, tick, calls, event_marks, elsewhere>>

\* mutant: the query does not filter by owner
RecurringTasks_of_anyone(T, user) == {t \in T : t.is_recurring}

\* mutant: a paused task is left alone while its owner is away
RecurringTasks_pausing(T, user) ==
    {t \in T : /\ t.user_id = user
               /\ t.is_recurring
               /\ ~(t.pause_on_away /\
                      \E p \in away_periods :
                          /\ p.user_id = user /\ p.is_active
                          /\ p.start_date <= date(utcnow) /\ date(utcnow) <= p.end_date)}

\* db.query(Task).filter(Task.user_id == current_user.id, Task.is_recurring == True)
RecurringTasks(T, user) == {t \in T : t.user_id = user /\ t.is_recurring}

\* the rows of table T for which the loop of the sweep calls reset_recurring
SweepDue(T, user, now) == {t \in RecurringTasks(T, user) : should_reset(t, now)}

\* mutant: the resets are never committed
SweepTable_uncommitted(T, user, now) == T

\* table T after the loop of the sweep and its db.commit()
SweepTable(T, user, now) ==
    (T \ SweepDue(T, user, now))
        \cup {reset_recurring(t, now) : t \in SweepDue(T, user, now)}

reset_recurring_tasks(user) ==
    /\ tasks' = SweepTable(tasks, user, utcnow)
    /\ resp' = Response("reset_recurring_tasks", 200,
                        Cardinality(SweepDue(tasks, user, utcnow)))
    /\ UNCHANGED <<nextId, tick, calls, streaks, event_marks, elsewhere>>

(***************************************************************************)
(* routers/calendar.py, services/calendar.py: syncing a task stores the    *)
(* id of its calendar event in the task.  The calendar itself is a remote  *)
(* service: whether a call to it succeeds, and the id it gives a new       *)
(* event, are inputs.                                                      *)
(***************************************************************************)
\* ids the remote calendar gives to events
EventIds == {1}

\* what the remote calendar does with one sync request: "updated" (the
\* event the task names is updated), "created" (there is none, or its
\* update fails, and a new event is created) or "failed" (it raises)
SyncOutcomes == {"updated", "created", "failed"}

sync_task_to_calendar(user, task_id, outcome, event_id) ==
    IF OwnedTask(task_id, user) = {} THEN NotFound("sync_task_to_calendar")
    ELSE LET t == CHOOSE x \in OwnedTask(task_id, user) : TRUE
         IN  IF t.calendar_event_id # NULL /\ outcome = "updated"
             THEN \* update_event succeeded: the event has the title and the
                  \* description of the task again; return event['id']
                  /\ event_marks' = [event_marks EXCEPT ![t.calendar_event_id] = NoMarks]
                  /\ resp' = Response("sync_task_to_calendar", 201, 0)
                  /\ UNCHANGED <<tasks, nextId, tick, calls, streaks, elsewhere>>
             ELSE IF outcome # "failed"
             THEN \* create_event succeeded: the id is stored and committed
                  /\ tasks' = (tasks \ {t}) \cup {[t EXCEPT !.calendar_event_id = event_id]}
                  /\ event_marks' = [event_marks EXCEPT ![event_id] = NoMarks]
                  /\ resp' = Response("sync_task_to_calendar", 201, 0)
                  /\ UNCHANGED <<nextId, tick, calls, streaks, elsewhere>>
             ELSE \* create_event raised: nothing is committed
                  /\ resp' = Response("sync_task_to_calendar", 500, 0)
                  /\ UNCHANGED <<tasks, nextId, tick, calls, streaks, event_marks, elsewhere>>

\* what the remote calendar does with one unsync request: "deleted" (the
\* event is deleted), "failed" (the delete call raises, delete_event returns
\* False), "unauthorized" (_get_service raises ValueError: no credentials) or
\* "raised" (_get_service raises anything else)
UnsyncOutcomes == {"deleted", "failed", "unauthorized", "raised"}

\* mutant: the reference is cleared whatever delete_event returned
unsync_task_always_clears(t, outcome) ==
    IF t.calendar_event_id = NULL THEN [returned |-> "True", task |-> t]
    ELSE IF outcome = "deleted"
    THEN [returned |-> "True", task |-> [t EXCEPT !.calendar_event_id = NULL]]
    ELSE IF outcome = "failed"
    THEN [returned |-> "False", task |-> [t EXCEPT !.calendar_event_id = NULL]]
    ELSE [returned |-> "raised", task |-> t]

\* CalendarService.unsync_task: what it returns ("raised" when it does not
\* return) and the row of the task after it
unsync_task(t, outcome) ==
    IF t.calendar_event_id = NULL THEN [returned |-> "True", task |-> t]
    ELSE IF outcome = "deleted"
    THEN \* task.calendar_event_id = None; self.db.commit(); return deleted
         [returned |-> "True", task |-> [t EXCEPT !.calendar_event_id = NULL]]
    ELSE IF outcome = "failed"
    THEN [returned |-> "False", task |-> t]
    ELSE [returned |-> "raised", task |-> t]

\* the response of the endpoint, with the value unsync_task gave the handler
\* (the handler answers 204 whichever it is)
UnsyncResponse(code, returned) ==
    [op |-> "unsync_task_from_calendar", code |-> code, returned |-> returned]

unsync_task_from_calendar(user, task_id, outcome) ==
    IF OwnedTask(task_id, user) = {} THEN NotFound("unsync_task_from_calendar")
    ELSE LET t == CHOOSE x \in OwnedTask(task_id, user) : TRUE
             r == unsync_task(t, outcome)
         IN  /\ tasks' = (tasks \ {t}) \cup {r.task}
             /\ resp' = UnsyncResponse(IF r.returned # "raised" THEN 204
                                        ELSE IF outcome = "unauthorized" THEN 403
                                        ELSE 500,
                                        r.returned)
             /\ UNCHANGED <<nextId, tick, calls, streaks, event_marks, elsewhere>>

\* time passes between two requests
Tick ==
    /\ tick < MaxTick
    /\ tick' = tick + 1
    /\ resp' = NoResponse
    /\ UNCHANGED <<tasks, nextId, calls, streaks, event_marks, elsewhere>>

(***************************************************************************)
(* Request bodies.                                                         *)
(***************************************************************************)
\* due dates a client sends
DueDates == {NULL, Instant(3)}

\* TaskCreate bodies
CreateInputs ==
    [type : TaskType, is_recurring : BOOLEAN, pause_on_away : BOOLEAN, due_date : DueDates]

\* TaskUpdate bodies (exclude_unset: only the fields sent)
UpdateInputs ==
    [status : TaskStatus] \cup [is_recurring : BOOLEAN] \cup [type : TaskType]

\* task ids a client sends
TaskIds == 1 .. MaxTasks

\* task ids a client sends: those of the table
KnownIds == {t.id : t \in tasks}

(***************************************************************************)
(* Spec: the service from an empty tasks table.                            *)
(***************************************************************************)
\* every user is registered, the events of the calendar are unmarked and no
\* request is in flight
InitUntouched ==
    /\ users = Users
    /\ event_marks = [e \in EventIds |-> NoMarks]
    /\ inflight = {}

\* the streaks and away_periods tables are empty, no user has a refresh
\* token (the column is nullable and unset at sign-up) and the calendar has
\* not been called
InitElsewhere ==
    /\ streaks = {}
    /\ away_periods = {}
    /\ nextPeriodId = 1
    /\ google_refresh_token = [u \in Users |-> NULL]
    /\ calls = <<>>
    /\ InitUntouched

Init ==
    /\ tasks = {}
    /\ nextId = 1
    /\ tick = 1
    /\ resp = NoResponse
    /\ InitElsewhere

Next ==
    \/ \E u \in Users, d \in CreateInputs : create_task(u, d)
    \/ \E u \in Users, i \in TaskIds, d \in UpdateInputs : update_task(u, i, d)
    \/ \E u \in Users, i \in TaskIds : complete_task(u, i)
    \/ \E u \in Users, i \in TaskIds : uncomplete_task(u, i)
    \/ \E u \in Users, i \in TaskIds : delete_task(u, i)
    \/ \E u \in Users, i \in TaskIds, o \in SyncOutcomes, e \in EventIds :
           sync_task_to_calendar(u, i, o, e)
    \/ \E u \in Users : reset_recurring_tasks(u)
    \/ Tick

Spec == Init /\ [][Next]_vars

(***************************************************************************)
(* SpecTask: the life of one task, from the state its create_task leaves.  *)
(***************************************************************************)
\* the user who created the task; the other users are strangers to it
Owner == 1

InitTask ==
    /\ \E d \in CreateInputs : tasks = {NewTask(1, Owner, d)}
    /\ nextId = 2
    /\ tick = 1
    /\ resp = Response("create_task", 201, 0)
    /\ InitElsewhere

NextTask ==
    \/ \E u \in Users, i \in KnownIds, d \in UpdateInputs : update_task(u, i, d)
    \/ \E u \in Users, i \in KnownIds : complete_task(u, i)
    \/ \E u \in Users, i \in KnownIds : uncomplete_task(u, i)
    \/ \E u \in Users, i \in KnownIds, o \in SyncOutcomes, e \in EventIds :
           sync_task_to_calendar(u, i, o, e)
    \/ \E u \in Users : reset_recurring_tasks(u)
    \/ Tick

SpecTask == InitTask /\ [][NextTask]_vars

(***************************************************************************)
(* SpecSweep: two tasks, from the state two create_task requests leave,    *)
(* under completions and sweeps.                                           *)
(***************************************************************************)
SweepInputs ==
    [type : TaskType, is_recurring : BOOLEAN, pause_on_away : {TRUE}, due_date : {NULL}]

InitSweep ==
    /\ \E u1, u2 \in Users, d1, d2 \in SweepInputs :
           tasks = {NewTask(1, u1, d1), NewTask(2, u2, d2)}
    /\ nextId = 3
    /\ tick = 1
    /\ resp = Response("create_task", 201, 0)
    /\ InitElsewhere

NextSweep ==
    \/ \E u \in Users, t \in tasks : complete_task(u, t.id)
    \/ \E u \in Users : reset_recurring_tasks(u)
    \/ Tick

SpecSweep == InitSweep /\ [][NextSweep]_vars

(***************************************************************************)
(* models/streak.py: the Streak row of a task and its methods.  No         *)
(* endpoint calls them: SpecStreak applies them, in any order, to a fresh  *)
(* row.                                                                    *)
(***************************************************************************)
\* date.today(), read from the same clock as utcnow()
today == date(utcnow)

\* Streak(user_id=..., task_id=...) with the column defaults
NewStreak(id, user_id, task_id) ==
    [ id |-> id,
      user_id |-> user_id,
      task_id |-> task_id,
      current_streak |-> 0,
      longest_streak |-> 0,
      last_completed_date |-> NULL,
      visual_theme |-> "basic" ]

\* mutant: bronze only above seven completions
update_visual_theme_late_bronze(s) ==
    [s EXCEPT !.visual_theme =
        IF s.current_streak >= 90 THEN "gold"
        ELSE IF s.current_streak >= 30 THEN "silver"
        ELSE IF s.current_streak > 7 THEN "bronze"
        ELSE "basic"]

update_visual_theme(s) ==
    [s EXCEPT !.visual_theme =
        IF s.current_streak >= 90 THEN "gold"
        ELSE IF s.current_streak >= 30 THEN "silver"
        ELSE IF s.current_streak >= 7 THEN "bronze"
        ELSE "basic"]

\* mutant: the longest streak is never raised
increment_streak_keeps_longest(s, day) ==
    update_visual_theme([s EXCEPT !.current_streak = @ + 1, !.last_completed_date = day])

increment_streak(s, day) ==
    LET counted == [s EXCEPT !.current_streak = @ + 1, !.last_completed_date = day]
        longest == IF counted.current_streak > counted.longest_streak
                   THEN [counted EXCEPT !.longest_streak = counted.current_streak]
                   ELSE counted
    IN  update_visual_theme(longest)

\* mutant: breaking the streak also forgets the longest one
break_streak_resets_longest(s) ==
    [s EXCEPT !.current_streak = 0, !.longest_streak = 0, !.visual_theme = "basic"]

break_streak(s) ==
    [s EXCEPT !.current_streak = 0, !.visual_theme = "basic"]

\* a call of streak.increment_streak() on a stored row
IncrementStreak ==
    /\ \E s \in streaks :
           /\ s.current_streak < MaxStreak
           /\ streaks' = (streaks \ {s}) \cup {increment_streak(s, today)}
    /\ UNCHANGED <<tasks, nextId, tick, resp, calls, event_marks, elsewhere>>

\* a call of streak.break_streak() on a stored row
BreakStreak ==
    /\ \E s \in streaks : streaks' = (streaks \ {s}) \cup {break_streak(s)}
    /\ UNCHANGED <<tasks, nextId, tick, resp, calls, event_marks, elsewhere>>

\* the task the streak belongs to
StreakTask ==
    [type |-> DAILY, is_recurring |-> TRUE, pause_on_away |-> TRUE, due_date |-> NULL]

InitStreak ==
    /\ tasks = {NewTask(1, Owner, StreakTask)}
    /\ nextId = 2
    /\ tick = 1
    /\ resp = NoResponse
    /\ streaks = {NewStreak(1, Owner, 1)}
    /\ away_periods = {}
    /\ nextPeriodId = 1
    /\ google_refresh_token = [u \in Users |-> NULL]
    /\ calls = <<>>
    /\ InitUntouched

NextStreak ==
    \/ IncrementStreak
    \/ BreakStreak
    \/ Tick

SpecStreak == InitStreak /\ [][NextStreak]_vars

(***************************************************************************)
(* models/away_period.py, schemas/away_period.py, routers/away_periods.py: *)
(* the away_periods table and its endpoints.  Every endpoint acts for the  *)
(* one user get_or_create_test_user returns.  Dates are days since         *)
(* 2024-01-01.                                                             *)
(***************************************************************************)
\* the user of get_or_create_test_user: the first row of users
TestUser == Owner

\* the d-th of March 2024
March(d) == 31 + 29 + (d - 1)

\* AwayPeriod(user_id=user.id, **period_data.model_dump()), is_active default
NewAwayPeriod(id, user_id, data) ==
    [ id |-> id,
      user_id |-> user_id,
      start_date |-> data.start_date,
      end_date |-> data.end_date,
      is_active |-> TRUE ]

\* AwayPeriodBase: the body passes the validator of end_date
validate_end_after_start(data) == ~(data.end_date < data.start_date)

\* mutant: the bounds of the overlap test are exclusive
Overlapping_exclusive(P, user, data) ==
    {p \in P : /\ p.user_id = user
               /\ p.is_active
               /\ p.start_date < data.end_date
               /\ p.end_date > data.start_date}

\* mutant: inactive periods are in the way too
Overlapping_inactive_too(P, user, data) ==
    {p \in P : /\ p.user_id = user
               /\ p.start_date <= data.end_date
               /\ p.end_date >= data.start_date}

\* the query of create_away_period for overlapping active periods
Overlapping(P, user, data) ==
    {p \in P : /\ p.user_id = user
               /\ p.is_active
               /\ p.start_date <= data.end_date
               /\ p.end_date >= data.start_date}

\* mutant: today has to be before the last day
is_current_before_end(p, day) ==
    p.is_active /\ p.start_date <= day /\ day < p.end_date

is_current(p, day) ==
    p.is_active /\ p.start_date <= day /\ day <= p.end_date

deactivate(p) == [p EXCEPT !.is_active = FALSE]

\* db.query(AwayPeriod).filter(AwayPeriod.id == period_id,
\*                             AwayPeriod.user_id == user.id)
OwnedPeriod(period_id, user) ==
    {p \in away_periods : p.id = period_id /\ p.user_id = user}

\* what the client gets back from an away-period endpoint: the HTTP status
\* code and the id of the period the body or the error detail names
AwayResponse(op, code, period_id) == [op |-> op, code |-> code, period_id |-> period_id]

\* the periods of the listing for which the loop finds is_current() true
CurrentPeriods(P, user, day) == {p \in P : p.user_id = user /\ is_current(p, day)}

\* the away state stays as it is, and so does everything outside it
AwayReadOnly ==
    UNCHANGED <<away_periods, nextPeriodId, tasks, nextId, tick, streaks,
                google_refresh_token, calls, users, event_marks, inflight>>

\* everything outside the away_periods table stays as it is
AwayOnly ==
    UNCHANGED <<tasks, nextId, tick, streaks, google_refresh_token, calls, users,
                event_marks, inflight>>

\* current_away_period is the first current period of the query, which has
\* no ORDER BY: any of them
get_away_periods ==
    /\ IF CurrentPeriods(away_periods, TestUser, today) = {}
       THEN resp' = AwayResponse("get_away_periods", 200, NULL)
       ELSE \E p \in CurrentPeriods(away_periods, TestUser, today) :
                resp' = AwayResponse("get_away_periods", 200, p.id)
    /\ AwayReadOnly

create_away_period(period_data) ==
    IF ~validate_end_after_start(period_data)
    THEN \* the body is rejected before the handler runs
         /\ resp' = AwayResponse("create_away_period", 422, NULL)
         /\ AwayReadOnly
    ELSE IF Overlapping(away_periods, TestUser, period_data) # {}
    THEN \* .first() of a query without ORDER BY: any overlapping period
         /\ \E p \in Overlapping(away_periods, TestUser, period_data) :
                resp' = AwayResponse("create_away_period", 400, p.id)
         /\ AwayReadOnly
    ELSE /\ nextPeriodId <= MaxPeriods
         /\ away_periods' =
                away_periods \cup {NewAwayPeriod(nextPeriodId, TestUser, period_data)}
         /\ nextPeriodId' = nextPeriodId + 1
         /\ resp' = AwayResponse("create_away_period", 201, nextPeriodId)
         /\ AwayOnly

update_away_period(period_id, period_data) ==
    IF OwnedPeriod(period_id, TestUser) = {}
    THEN resp' = AwayResponse("update_away_period", 404, NULL) /\ AwayReadOnly
    ELSE LET p == CHOOSE x \in OwnedPeriod(period_id, TestUser) : TRUE
         IN  /\ away_periods' = (away_periods \ {p}) \cup {ApplyUpdate(p, period_data)}
             /\ resp' = AwayResponse("update_away_period", 200, period_id)
             /\ UNCHANGED nextPeriodId
             /\ AwayOnly

deactivate_away_period(period_id) ==
    IF OwnedPeriod(period_id, TestUser) = {}
    THEN resp' = AwayResponse("deactivate_away_period", 404, NULL) /\ AwayReadOnly
    ELSE LET p == CHOOSE x \in OwnedPeriod(period_id, TestUser) : TRUE
         IN  /\ away_periods' = (away_periods \ {p}) \cup {deactivate(p)}
             /\ resp' = AwayResponse("deactivate_away_period", 200, period_id)
             /\ UNCHANGED nextPeriodId
             /\ AwayOnly

delete_away_period(period_id) ==
    IF OwnedPeriod(period_id, TestUser) = {}
    THEN resp' = AwayResponse("delete_away_period", 404, NULL) /\ AwayReadOnly
    ELSE /\ away_periods' = away_periods \ OwnedPeriod(period_id, TestUser)
         /\ resp' = AwayResponse("delete_away_period", 204, NULL)
         /\ UNCHANGED nextPeriodId
         /\ AwayOnly

\* AwayPeriodCreate bodies: the first ten days of March, a stay from the 5th
\* that overlaps them, the stay from the 11th that follows them, the single
\* day they end on, and a range that ends before it starts
AwayCreateInputs ==
    { [start_date |-> March(1),  end_date |-> March(10)],
      [start_date |-> March(5),  end_date |-> March(20)],
      [start_date |-> March(11), end_date |-> March(20)],
      [start_date |-> March(10), end_date |-> March(10)],
      [start_date |-> March(20), end_date |-> March(11)] }

\* AwayPeriodUpdate bodies (exclude_unset: only the fields sent)
AwayUpdateInputs ==
    [start_date : {March(5)}] \cup [end_date : {March(10)}] \cup [is_active : BOOLEAN]

\* period ids a client sends
PeriodIds == 1 .. MaxPeriods

(***************************************************************************)
(* SpecAway: the away-period endpoints from an empty away_periods table.   *)
(***************************************************************************)
InitAway ==
    /\ tasks = {}
    /\ nextId = 1
    /\ tick = 1
    /\ resp = NoResponse
    /\ InitElsewhere

NextAway ==
    \/ \E d \in AwayCreateInputs : create_away_period(d)
    \/ \E i \in PeriodIds, d \in AwayUpdateInputs : update_away_period(i, d)
    \/ \E i \in PeriodIds : deactivate_away_period(i)
    \/ \E i \in PeriodIds : delete_away_period(i)

SpecAway == InitAway /\ [][NextAway]_vars

(***************************************************************************)
(* SpecRace: create_away_period served for several clients at once.  Each  *)
(* request runs in its own session: the overlap query is one statement,    *)
(* the INSERT and COMMIT of db.add(period); db.commit() come later, and    *)
(* nothing (no lock, no constraint of the table) ties them together.       *)
(***************************************************************************)
\* the requests that may be in flight at once
Requests == {"first", "second"}

\* what a request in flight writes: everything else stays as it is
RaceOnly ==
    UNCHANGED <<tasks, nextId, tick, streaks, google_refresh_token, calls, users,
                event_marks>>

\* the request is received and runs up to its overlap query
create_away_period_query(r, period_data) ==
    /\ \A q \in inflight : q.request # r
    /\ IF ~validate_end_after_start(period_data)
       THEN /\ resp' = AwayResponse("create_away_period", 422, NULL)
            /\ UNCHANGED inflight
       ELSE IF Overlapping(away_periods, TestUser, period_data) # {}
       THEN /\ \E p \in Overlapping(away_periods, TestUser, period_data) :
                   resp' = AwayResponse("create_away_period", 400, p.id)
            /\ UNCHANGED inflight
       ELSE /\ inflight' = inflight \cup {[request |-> r, data |-> period_data]}
            /\ UNCHANGED resp
    /\ UNCHANGED <<away_periods, nextPeriodId>>
    /\ RaceOnly

\* a request that found no overlap adds its period and commits
create_away_period_commit(r) ==
    /\ nextPeriodId <= MaxPeriods
    /\ \E q \in inflight :
           /\ q.request = r
           /\ away_periods' =
                  away_periods \cup {NewAwayPeriod(nextPeriodId, TestUser, q.data)}
           /\ inflight' = inflight \ {q}
    /\ nextPeriodId' = nextPeriodId + 1
    /\ resp' = AwayResponse("create_away_period", 201, nextPeriodId)
    /\ RaceOnly

NextRace ==
    \/ \E r \in Requests, d \in AwayCreateInputs : create_away_period_query(r, d)
    \/ \E r \in Requests : create_away_period_commit(r)
    \/ \E i \in PeriodIds : deactivate_away_period(i)

SpecRace == InitAway /\ [][NextRace]_vars

(***************************************************************************)
(* SpecLive: one recurring task that its owner marks Completed by either   *)
(* route, while the clock keeps advancing and the sweep keeps being run.   *)
(* The owner's requests stop before the last reading of the timeline,      *)
(* which lies in a later day, week and month than all of them.             *)
(***************************************************************************)
\* the task kinds that recur
RecurringKinds == {DAILY, WEEKLY, MONTHLY}

\* the PATCH bodies that mark a task Completed
CompletingUpdates == [status : {COMPLETED}]

InitLive ==
    /\ \E k \in RecurringKinds, p \in BOOLEAN, d \in DueDates :
           tasks = {NewTask(1, Owner,
                       [type |-> k, is_recurring |-> TRUE, pause_on_away |-> p,
                        due_date |-> d])}
    /\ nextId = 2
    /\ tick = 1
    /\ resp = Response("create_task", 201, 0)
    /\ InitElsewhere

NextLive ==
    \/ tick < Len(Timeline) /\ \E i \in KnownIds : complete_task(Owner, i)
    \/ tick < Len(Timeline) /\ \E i \in KnownIds, d \in CompletingUpdates :
                                   update_task(Owner, i, d)
    \/ reset_recurring_tasks(Owner)
    \/ Tick

\* the clock keeps advancing and the sweep keeps being invoked for the owner
SpecLive ==
    /\ InitLive
    /\ [][NextLive]_vars
    /\ WF_vars(Tick)
    /\ WF_vars(reset_recurring_tasks(Owner))

(***************************************************************************)
(* SpecCurrent: one stored away period, listed as the days pass.           *)
(***************************************************************************)
\* the days of the first clock readings of the timeline
CurrentDays == {date(Instant(1)), date(Instant(2)), date(Instant(4))}

\* the stored periods: created with a valid range, some deactivated since
StoredPeriods ==
    {p \in [id : {1}, user_id : {TestUser}, start_date : CurrentDays,
            end_date : CurrentDays, is_active : BOOLEAN] :
        p.start_date <= p.end_date}

InitCurrent ==
    /\ tasks = {}
    /\ nextId = 1
    /\ tick = 1
    /\ resp = NoResponse
    /\ streaks = {}
    /\ \E p \in StoredPeriods : away_periods = {p}
    /\ nextPeriodId = 2
    /\ google_refresh_token = [u \in Users |-> NULL]
    /\ calls = <<>>
    /\ InitUntouched

NextCurrent ==
    \/ get_away_periods
    \/ \E p \in away_periods : deactivate_away_period(p.id)
    \/ \E p \in away_periods, d \in AwayUpdateInputs : update_away_period(p.id, d)
    \/ Tick

SpecCurrent == InitCurrent /\ [][NextCurrent]_vars

(***************************************************************************)
(* SpecCalendar: completions of one task of a user who may have linked a   *)
(* Google account, the task possibly synced to a calendar event.           *)
(***************************************************************************)
\* users.google_refresh_token of the owner: unset, or set by the OAuth callback
RefreshTokens == {NULL, 1}

InitCalendar ==
    /\ \E e \in EventIds \cup {NULL} :
           tasks = {[NewTask(1, Owner, StreakTask) EXCEPT !.calendar_event_id = e]}
    /\ nextId = 2
    /\ tick = 1
    /\ resp = NoResponse
    /\ streaks = {}
    /\ away_periods = {}
    /\ nextPeriodId = 1
    /\ \E r \in RefreshTokens :
           google_refresh_token = [u \in Users |-> IF u = Owner THEN r ELSE NULL]
    /\ calls = <<>>
    /\ InitUntouched

NextCalendar ==
    \/ \E u \in Users, i \in KnownIds : complete_task(u, i)
    \/ \E u \in Users, i \in KnownIds : uncomplete_task(u, i)
    \/ \E u \in Users, i \in KnownIds, o \in SyncOutcomes, e \in EventIds :
           sync_task_to_calendar(u, i, o, e)
    \/ \E u \in Users, i \in KnownIds, o \in UnsyncOutcomes :
           unsync_task_from_calendar(u, i, o)
    \/ Tick

SpecCalendar == InitCalendar /\ [][NextCalendar]_vars

(***************************************************************************)
(* models/user.py, models/task.py: the delete cascades of the              *)
(* relationships.  No endpoint deletes a user: delete_user is              *)
(* db.delete(user); db.commit() under the cascades User declares.          *)
(* SpecCascade starts from two tasks with their streaks and an away        *)
(* period, and deletes.                                                    *)
(***************************************************************************)
\* User.tasks, User.streaks, User.away_periods, cascade="all, delete-orphan":
\* the rows of table T that are left when the user is deleted
CascadeUser(T, user) == {r \in T : r.user_id # user}

delete_user(user) ==
    /\ user \in users
    /\ users' = users \ {user}
    /\ tasks' = CascadeUser(tasks, user)
    /\ streaks' = CascadeStreaks(CascadeUser(streaks, user), tasks \ CascadeUser(tasks, user))
    /\ away_periods' = CascadeUser(away_periods, user)
    /\ resp' = NoResponse
    /\ UNCHANGED <<nextId, tick, nextPeriodId, google_refresh_token, calls,
                   event_marks, inflight>>

\* the rows of the streaks table: for each of the two tasks, its streak or,
\* for the second, none
CascadeStreakRows(owner2) ==
    { {NewStreak(1, Owner, 1)},
      {NewStreak(1, Owner, 1), NewStreak(2, owner2, 2)} }

InitCascade ==
    /\ \E owner2 \in Users, d \in SweepInputs :
           /\ tasks = {NewTask(1, Owner, StreakTask), NewTask(2, owner2, d)}
           /\ streaks \in CascadeStreakRows(owner2)
    /\ nextId = 3
    /\ tick = 1
    /\ resp = NoResponse
    /\ away_periods =
           {NewAwayPeriod(1, TestUser, [start_date |-> March(1), end_date |-> March(10)])}
    /\ nextPeriodId = 2
    /\ google_refresh_token = [u \in Users |-> NULL]
    /\ calls = <<>>
    /\ InitUntouched

NextCascade ==
    \/ \E u \in users, t \in tasks : delete_task(u, t.id)
    \/ \E u \in users, t \in tasks : complete_task(u, t.id)
    \/ \E u \in Users : delete_user(u)

SpecCascade == InitCascade /\ [][NextCascade]_vars

(***************************************************************************)
(* SpecPause: one recurring task of the user the away periods belong to,   *)
(* listed, completed and swept while away periods around the first days    *)
(* of the timeline come and go.                                            *)
(***************************************************************************)
PauseTasks ==
    [type : {DAILY, WEEKLY}, is_recurring : {TRUE}, pause_on_away : BOOLEAN,
     due_date : {NULL}]

\* an away period from the day of the first clock reading to the day of the
\* second and third
PauseCreateInputs ==
    { [start_date |-> date(Instant(1)), end_date |-> date(Instant(2))] }

PauseUpdateInputs == [is_active : BOOLEAN]

InitPause ==
    /\ \E d \in PauseTasks : tasks = {NewTask(1, TestUser, d)}
    /\ nextId = 2
    /\ tick = 1
    /\ resp = NoResponse
    /\ InitElsewhere

NextPause ==
    \/ \E st \in {NoStatus, PENDING} : get_tasks(TestUser, st)
    \/ \E i \in KnownIds : complete_task(TestUser, i)
    \/ reset_recurring_tasks(TestUser)
    \/ \E d \in PauseCreateInputs : create_away_period(d)
    \/ \E p \in away_periods, d \in PauseUpdateInputs : update_away_period(p.id, d)
    \/ \E p \in away_periods : deactivate_away_period(p.id)
    \/ \E p \in away_periods : delete_away_period(p.id)
    \/ Tick

SpecPause == InitPause /\ [][NextPause]_vars

(***************************************************************************)
(* SpecOwnership: a task of each of two users, and the task endpoints      *)
(* called by either user with the id of either task or of none, all at     *)
(* the first clock reading.                                                *)
(***************************************************************************)
\* task ids a client sends: those of the table and one that names no task
AnyIds == KnownIds \cup {nextId}

OwnershipUpdates == [status : {COMPLETED, SUGGESTED}]

InitOwnership ==
    /\ tasks = {NewTask(1, 1, StreakTask), NewTask(2, 2, StreakTask)}
    /\ nextId = 3
    /\ tick = 1
    /\ resp = NoResponse
    /\ InitElsewhere

NextOwnership ==
    \/ \E u \in Users, st \in {NoStatus, COMPLETED} : get_tasks(u, st)
    \/ \E u \in Users, i \in AnyIds : get_task(u, i)
    \/ \E u \in Users, i \in AnyIds, d \in OwnershipUpdates : update_task(u, i, d)
    \/ \E u \in Users, i \in AnyIds : complete_task(u, i)
    \/ \E u \in Users, i \in AnyIds : uncomplete_task(u, i)
    \/ \E u \in Users, i \in AnyIds : delete_task(u, i)
    \/ \E u \in Users : reset_recurring_tasks(u)

SpecOwnership == InitOwnership /\ [][NextOwnership]_vars

(***************************************************************************)
(* Properties.                                                             *)
(***************************************************************************)
OneWeek == 7 * MinutesPerDay

\* C1: in every reachable state every task has completed_at set when its
\* status is Completed and completed_at null when its status is Pending.
C1_StatusAgreesWithCompletedAt ==
    \A t \in tasks :
        /\ t.status = COMPLETED => t.completed_at # NULL
        /\ t.status = PENDING => t.completed_at = NULL

\* C2: a recurring Daily task that is Completed is due for reset exactly when
\* the clock is on a later calendar day than completed_at, whatever its
\* earlier resets.
C2_DailyDueByCompletionDay ==
    \A t \in tasks :
        (t.is_recurring /\ t.type = DAILY /\ t.status = COMPLETED
            /\ t.completed_at # NULL)
        => (should_reset(t, utcnow) <=> date(t.completed_at) < date(utcnow))

\* C3: a recurring Weekly task that is Completed is due for reset exactly
\* when at least 7 x 24 h have passed since check_time (last_reset_date if
\* set, completed_at otherwise): not yet at 6 d 23 h 59 min, due at 7 d 0 h.
C3_WeeklyDueAfterSevenDays ==
    \A t \in tasks :
        (t.is_recurring /\ t.type = WEEKLY /\ t.status = COMPLETED)
        => LET check == IF t.last_reset_date # NULL THEN t.last_reset_date
                        ELSE t.completed_at
           IN  check # NULL
               => /\ should_reset(t, utcnow) <=> utcnow - check >= OneWeek
                  /\ utcnow - check = OneWeek - 1 => ~should_reset(t, utcnow)
                  /\ utcnow - check = OneWeek => should_reset(t, utcnow)

\* a Weekly task is checked exactly 7 d 0 h 0 min after its completion
C3_Witness ==
    \E t \in tasks :
        /\ t.is_recurring /\ t.type = WEEKLY /\ t.status = COMPLETED
        /\ t.last_reset_date = NULL /\ t.completed_at # NULL
        /\ utcnow - t.completed_at = OneWeek
        /\ should_reset(t, utcnow)

\* the (year, month) pair of instant x as one number
YearMonth(x) == 12 * year(x) + month(x)

\* C4: a recurring Monthly task that is Completed is due for reset exactly
\* when the (month, year) of check_time differs from that of the clock:
\* completed on 2024-01-31 it is not due later that day and due on 2024-02-01.
C4_MonthlyDueInAnotherMonth ==
    \A t \in tasks :
        (t.is_recurring /\ t.type = MONTHLY /\ t.status = COMPLETED)
        => LET check == IF t.last_reset_date # NULL THEN t.last_reset_date
                        ELSE t.completed_at
           IN  check # NULL
               => /\ should_reset(t, utcnow) <=> YearMonth(check) # YearMonth(utcnow)
                  /\ (check = Instant(2) /\ tick = 3) => ~should_reset(t, utcnow)
                  /\ (check = Instant(2) /\ tick = 4) => should_reset(t, utcnow)

\* a Monthly task completed in January 2024 is checked in January 2025
C4_Witness ==
    \E t \in tasks :
        /\ t.is_recurring /\ t.type = MONTHLY /\ t.status = COMPLETED
        /\ t.completed_at # NULL
        /\ month(t.completed_at) = month(utcnow)
        /\ year(t.completed_at) # year(utcnow)
        /\ should_reset(t, utcnow)

\* the tasks C5 speaks of
C5_Exempt(t) ==
    \/ ~t.is_recurring
    \/ t.status # COMPLETED
    \/ t.last_reset_date = NULL /\ t.completed_at = NULL
    \/ t.type \in {LONG_TERM, GYM_WORKOUT}

\* C5: should_reset is false for a task that is not recurring, or not
\* Completed, or has neither last_reset_date nor completed_at, or is of kind
\* LongTerm or GymWorkout; and no sweep changes such a task.
C5_ExemptNeverReset ==
    [][ \A t \in tasks :
            C5_Exempt(t)
            => /\ ~should_reset(t, utcnow)
               /\ \A u \in Users : reset_recurring_tasks(u) => t \in tasks'
      ]_vars

\* a sweep has just left alone a recurring LongTerm task completed on an
\* earlier day
C5_Witness ==
    /\ resp.op = "reset_recurring_tasks"
    /\ \E t \in tasks :
        /\ t.is_recurring /\ t.type = LONG_TERM /\ t.status = COMPLETED
        /\ t.completed_at # NULL
        /\ date(t.completed_at) < date(utcnow)

\* C6: the sweep is idempotent: a sweep run on the table a sweep has left
\* resets nothing and counts 0; and a task that is not Completed (as a task
\* is from its reset until it is completed again) is never due.
C6_SweepIdempotent ==
    [][ \A u \in Users :
            /\ LET once == SweepTable(tasks, u, utcnow)
               IN  /\ SweepDue(once, u, utcnow) = {}
                   /\ SweepTable(once, u, utcnow) = once
            /\ reset_recurring_tasks(u)
               => /\ Cardinality(SweepDue(tasks', u, utcnow')) = 0
                  /\ \A t \in tasks' \ tasks : ~should_reset(t, utcnow')
            /\ \A t \in tasks : t.status # COMPLETED => ~should_reset(t, utcnow)
      ]_vars

\* a sweep has just reset two tasks, and a second one would reset none
C6_Witness ==
    /\ resp.op = "reset_recurring_tasks"
    /\ resp.reset_count = 2
    /\ \A t \in tasks : t.status = PENDING /\ t.last_reset_date = utcnow
    /\ \A u \in Users : SweepDue(tasks, u, utcnow) = {}

\* C7: a sweep for user u resets exactly the recurring tasks of u that are
\* due at that instant, returns their number as reset_count, and leaves every
\* other task as it was.
C7_SweepFrame ==
    [][ \A u \in Users :
            reset_recurring_tasks(u)
            => LET hit == {t \in tasks : t.user_id = u /\ t.is_recurring
                                         /\ should_reset(t, utcnow)}
               IN  /\ resp'.reset_count = Cardinality(hit)
                   /\ \A t \in tasks :
                          IF t \in hit
                          THEN reset_recurring(t, utcnow) \in tasks' /\ t \notin tasks'
                          ELSE t \in tasks'
                   /\ Cardinality(tasks') = Cardinality(tasks)
      ]_vars

\* a sweep has just reset one task and left alone a due task of the other user
C7_Witness ==
    /\ resp.op = "reset_recurring_tasks"
    /\ resp.reset_count = 1
    /\ \E t1, t2 \in tasks :
        /\ t1.user_id # t2.user_id
        /\ t1.status = PENDING /\ t1.last_reset_date = utcnow
        /\ should_reset(t2, utcnow)

\* the row of table T with the given id
Row(T, id) == CHOOSE t \in T : t.id = id

\* from table T to table T2, the row with the given id changed at most in the
\* named columns and no other row changed
ChangedOnly(T, T2, id, columns) ==
    /\ {t.id : t \in T2} = {t.id : t \in T}
    /\ \A t \in T :
           IF t.id = id
           THEN \A f \in DOMAIN t \ columns : Row(T2, id)[f] = t[f]
           ELSE t \in T2

\* C8: mark_complete followed by mark_pending yields status Pending and
\* completed_at null and changes no other field; so do the endpoints
\* complete_task and uncomplete_task.
C8_CompleteThenPending ==
    [][ /\ \A t \in tasks :
               mark_pending(mark_complete(t, utcnow))
                   = [t EXCEPT !.status = PENDING, !.completed_at = NULL]
        /\ \A u \in Users, i \in KnownIds :
               /\ complete_task(u, i)
                  => ChangedOnly(tasks, tasks', i, {"status", "completed_at"})
               /\ uncomplete_task(u, i)
                  => /\ ChangedOnly(tasks, tasks', i, {"status", "completed_at"})
                     /\ OwnedTask(i, u) # {}
                        => /\ Row(tasks', i).status = PENDING
                           /\ Row(tasks', i).completed_at = NULL
      ]_vars

\* uncomplete_task has just acted on a task that carries a reset date, a due
\* date, a calendar event and pause_on_away off
C8_Witness ==
    /\ resp.op = "uncomplete_task"
    /\ resp.code = 200
    /\ \E t \in tasks :
        /\ t.status = PENDING /\ t.completed_at = NULL
        /\ t.last_reset_date # NULL /\ t.due_date # NULL
        /\ t.calendar_event_id # NULL /\ ~t.pause_on_away

\* C9: mark_complete gives status Completed and completed_at = now from any
\* status, and a second mark_complete at the same instant changes nothing;
\* complete_task on an owned task answers 200 with the task so completed.
C9_MarkCompleteTotal ==
    [][ /\ \A t \in tasks :
               LET c == mark_complete(t, utcnow)
               IN  /\ c.status = COMPLETED
                   /\ c.completed_at = utcnow
                   /\ mark_complete(c, utcnow) = c
        /\ \A u \in Users, i \in KnownIds :
               (complete_task(u, i) /\ OwnedTask(i, u) # {})
               => /\ resp'.code = 200
                  /\ Row(tasks', i).status = COMPLETED
                  /\ Row(tasks', i).completed_at = utcnow
      ]_vars

\* complete_task has just completed a task that had been reset before
C9_Witness ==
    /\ resp.op = "complete_task"
    /\ resp.code = 200
    /\ \E t \in tasks :
        /\ t.status = COMPLETED /\ t.completed_at = utcnow
        /\ t.last_reset_date # NULL /\ t.last_reset_date < utcnow

\* C10: reset_recurring on any task, due or not, gives status Pending,
\* completed_at null and last_reset_date = now and changes no other field;
\* the sweep, which applies it, answers 200.
C10_ResetRecurringEffect ==
    [][ /\ \A t \in tasks :
               LET r == reset_recurring(t, utcnow)
               IN  /\ r.status = PENDING
                   /\ r.completed_at = NULL
                   /\ r.last_reset_date = utcnow
                   /\ \A f \in DOMAIN t \ {"status", "completed_at", "last_reset_date"} :
                          r[f] = t[f]
                   /\ DOMAIN r = DOMAIN t
        /\ \A u \in Users :
               reset_recurring_tasks(u)
               => /\ resp'.code = 200
                  /\ \A t \in tasks \ tasks' :
                         /\ Row(tasks', t.id).status = PENDING
                         /\ Row(tasks', t.id).completed_at = NULL
                         /\ Row(tasks', t.id).last_reset_date = utcnow
                         /\ ChangedOnly(tasks, tasks', t.id,
                                        {"status", "completed_at", "last_reset_date"})
      ]_vars

\* a sweep has just reset a task that carries a due date, a calendar event
\* and pause_on_away off
C10_Witness ==
    /\ resp.op = "reset_recurring_tasks"
    /\ resp.reset_count = 1
    /\ \E t \in tasks :
        /\ t.status = PENDING /\ t.completed_at = NULL
        /\ t.last_reset_date = utcnow
        /\ t.due_date # NULL /\ t.calendar_event_id # NULL /\ ~t.pause_on_away

\* C11: from a streak with current_streak = longest_streak = 0, every state
\* reached by increment_streak and break_streak calls has current_streak >= 0
\* and longest_streak >= current_streak; each increment_streak raises
\* current_streak by exactly 1, sets last_completed_date to today, and raises
\* longest_streak (to the new current_streak) only when that exceeds it.
C11_StreakCounters ==
    /\ [](\A s \in streaks :
             s.current_streak >= 0 /\ s.longest_streak >= s.current_streak)
    /\ [][IncrementStreak =>
             \A s \in streaks : \E s2 \in streaks' :
                 /\ s2.id = s.id
                 /\ s2.current_streak = s.current_streak + 1
                 /\ s2.last_completed_date = date(utcnow)
                 /\ s2.longest_streak =
                        IF s.current_streak + 1 > s.longest_streak
                        THEN s.current_streak + 1 ELSE s.longest_streak]_vars

\* an increment below the longest streak: counted, dated, longest kept
C11_Witness ==
    \E s \in streaks :
        /\ s.current_streak = 2
        /\ s.longest_streak = 3
        /\ s.last_completed_date = date(utcnow)
        /\ tick = 4

\* the threshold function of the streak themes
ThemeOf(n) ==
    IF n >= 90 THEN "gold"
    ELSE IF n >= 30 THEN "silver"
    ELSE IF n >= 7 THEN "bronze"
    ELSE "basic"

\* C12: after any sequence of increment_streak and break_streak calls,
\* visual_theme is the threshold function of current_streak (gold from 90,
\* silver from 30, bronze from 7, basic below); so a streak of 6 is basic, of
\* 7 bronze, of 29 bronze, of 30 silver, of 89 silver and of 90 gold.
C12_ThemeFollowsStreak ==
    \A s \in streaks :
        /\ s.visual_theme = ThemeOf(s.current_streak)
        /\ s.current_streak = 6 => s.visual_theme = "basic"
        /\ s.current_streak = 7 => s.visual_theme = "bronze"
        /\ s.current_streak = 29 => s.visual_theme = "bronze"
        /\ s.current_streak = 30 => s.visual_theme = "silver"
        /\ s.current_streak = 89 => s.visual_theme = "silver"
        /\ s.current_streak = 90 => s.visual_theme = "gold"

\* the 90th increment in a row
C12_Witness ==
    \E s \in streaks :
        s.current_streak = 90 /\ s.longest_streak = 90 /\ s.visual_theme = "gold"

\* C13: break_streak on a streak in any state yields current_streak = 0 and
\* visual_theme = basic and leaves longest_streak and last_completed_date (and
\* the keys of the row) as they were.
C13_BreakStreakFrame ==
    [][BreakStreak =>
          \A s \in streaks : \E s2 \in streaks' :
              /\ s2.current_streak = 0
              /\ s2.visual_theme = "basic"
              /\ s2.longest_streak = s.longest_streak
              /\ s2.last_completed_date = s.last_completed_date
              /\ s2.id = s.id /\ s2.user_id = s.user_id /\ s2.task_id = s.task_id]_vars

\* a silver streak of 30 has been broken: only a break leaves current_streak
\* = 0 below a positive longest_streak
C13_Witness ==
    \E s \in streaks :
        /\ s.current_streak = 0
        /\ s.longest_streak = 30
        /\ s.visual_theme = "basic"
        /\ s.last_completed_date # NULL

\* the inclusive date ranges of p and q share a day
Overlap(p, q) == p.start_date <= q.end_date /\ p.end_date >= q.start_date

\* C14: in every state reachable through away-period operations (create,
\* update, deactivate, delete), no two active away periods of the same owner
\* have overlapping inclusive date ranges.
C14_NoActiveOverlap ==
    \A p, q \in away_periods :
        (p.id # q.id /\ p.user_id = q.user_id /\ p.is_active /\ q.is_active)
            => ~Overlap(p, q)

\* the active periods of the owner that share a day with the range [s, e] of d
Conflicts(d) ==
    {p \in away_periods : /\ p.user_id = TestUser
                          /\ p.is_active
                          /\ p.start_date <= d.end_date
                          /\ p.end_date >= d.start_date}

\* the only active period is [2024-03-01, 2024-03-10]
OnlyFirstTenDays ==
    \E p \in away_periods :
        /\ p.is_active /\ p.start_date = March(1) /\ p.end_date = March(10)
        /\ \A q \in away_periods : q.is_active => q = p

\* C15: creating an away period [s, e] (s <= e) fails with the Conflict error
\* (400) naming the id of a conflicting period, and stores nothing, exactly
\* when some active period of the owner has start_date <= e and end_date >= s;
\* otherwise the period is stored with is_active = true.  With only
\* [03-01, 03-10] active, [03-05, 03-20] fails and [03-11, 03-20] succeeds.
C15_CreateConflict ==
    [][\A d \in AwayCreateInputs :
          (create_away_period(d) /\ d.start_date <= d.end_date) =>
              /\ IF Conflicts(d) # {}
                 THEN /\ resp'.code = 400
                      /\ resp'.period_id \in {p.id : p \in Conflicts(d)}
                      /\ away_periods' = away_periods
                 ELSE /\ resp'.code = 201
                      /\ away_periods' = away_periods \cup
                             {[id |-> resp'.period_id, user_id |-> TestUser,
                               start_date |-> d.start_date, end_date |-> d.end_date,
                               is_active |-> TRUE]}
                      /\ resp'.period_id \notin {p.id : p \in away_periods}
              /\ (OnlyFirstTenDays /\ d.start_date = March(5) /\ d.end_date = March(20))
                     => (resp'.code = 400 /\ away_periods' = away_periods)
              /\ (OnlyFirstTenDays /\ d.start_date = March(11) /\ d.end_date = March(20))
                     => (resp'.code = 201 /\ away_periods' # away_periods)
              /\ (OnlyFirstTenDays /\ d.start_date = March(10) /\ d.end_date = March(10))
                     => resp'.code = 400]_vars

\* [03-11, 03-20] has been created next to the active [03-01, 03-10]
C15_Witness ==
    /\ resp.op = "create_away_period"
    /\ resp.code = 201
    /\ \E p, q \in away_periods :
           /\ p.is_active /\ p.start_date = March(1) /\ p.end_date = March(10)
           /\ q.is_active /\ q.start_date = March(11) /\ q.end_date = March(20)
           /\ q.id = resp.period_id

\* C16: every stored away period has end_date >= start_date in every
\* reachable state: creation with end_date before start_date is rejected and
\* stores nothing, and no later update or deactivation produces a period with
\* end_date < start_date.
C16_EndNotBeforeStart ==
    \A p \in away_periods : p.end_date >= p.start_date

\* C17: deactivate sets is_active = false on the period and keeps the record
\* stored with its dates unchanged, and an inactive period is ignored by every
\* later overlap check: creating a period whose range overlaps an inactive
\* period and no active one succeeds.
C17_DeactivatedIsIgnored ==
    [][/\ \A p \in away_periods :
             deactivate_away_period(p.id) =>
                 /\ away_periods' =
                        (away_periods \ {p}) \cup {[p EXCEPT !.is_active = FALSE]}
                 /\ resp'.code = 200
       /\ \A d \in AwayCreateInputs :
             ( /\ create_away_period(d)
               /\ d.start_date <= d.end_date
               /\ \E p \in away_periods : ~p.is_active /\ Overlap(p, d)
               /\ \A p \in away_periods : p.is_active => ~Overlap(p, d) )
             => /\ resp'.code = 201
                /\ \E q \in away_periods' :
                       /\ q \notin away_periods
                       /\ q.is_active
                       /\ q.start_date = d.start_date /\ q.end_date = d.end_date]_vars

\* a period has been created over a deactivated one that is still stored
C17_Witness ==
    /\ resp.op = "create_away_period"
    /\ resp.code = 201
    /\ \E p, q \in away_periods :
           /\ ~p.is_active
           /\ q.is_active /\ q.id = resp.period_id /\ p.id < q.id
           /\ Overlap(p, q)

\* C18: is_current of an away period is true if and only if the period is
\* active and start_date <= today <= end_date, both bounds inclusive; a
\* deactivated period is never current, whatever its dates.  The listing
\* names a current period exactly when there is one.
C18_CurrentIffActiveAndInRange ==
    /\ [](\A p \in away_periods :
             /\ is_current(p, date(utcnow)) <=>
                    ( /\ p.is_active
                      /\ p.start_date <= date(utcnow)
                      /\ date(utcnow) <= p.end_date )
             /\ ~p.is_active => ~is_current(p, date(utcnow)))
    /\ [][get_away_periods =>
             LET InRange == {p \in away_periods :
                                /\ p.is_active
                                /\ p.start_date <= date(utcnow)
                                /\ date(utcnow) <= p.end_date}
             IN  IF InRange = {} THEN resp'.period_id = NULL
                 ELSE resp'.period_id \in {p.id : p \in InRange}]_vars

\* listed as current on its last day
C18_Witness ==
    /\ resp.op = "get_away_periods"
    /\ \E p \in away_periods :
           /\ resp.period_id = p.id
           /\ p.start_date < p.end_date
           /\ p.end_date = date(utcnow)

\* C19: completing an existing task owned by the caller always commits status
\* = Completed with completed_at set and returns success, whatever the
\* calendar collaborator does: a failure to initialise the calendar service,
\* to fetch the event or to update it is swallowed, and the completion is
\* neither rolled back nor reported as an error.
C19_CompletionSurvivesCalendar ==
    [][\A u \in Users, t \in tasks :
          (complete_task(u, t.id) /\ t.user_id = u) =>
              /\ resp'.code = 200
              /\ tasks' = (tasks \ {t}) \cup
                     {[t EXCEPT !.status = COMPLETED, !.completed_at = utcnow]}
              /\ \A x \in tasks' : x.id = t.id => x.completed_at # NULL]_vars

\* the calendar service could not be initialised, the completion succeeded
C19_Witness ==
    /\ resp = Response("complete_task", 200, 0)
    /\ calls = <<Call("CalendarService", "raised", FALSE)>>
    /\ \E t \in tasks : t.status = COMPLETED /\ t.completed_at = utcnow

\* C20: on task completion the calendar update is attempted at most once per
\* completion request, and it is dispatched only after the status transition
\* of the task has been committed, not inside the transaction of the
\* transition.
C20_UpdateAfterCommit ==
    /\ Cardinality({i \in DOMAIN calls : calls[i].call = "update_event"}) <= 1
    /\ \A i \in DOMAIN calls :
           calls[i].call = "update_event" => calls[i].committed

\* no streak refers to a missing task, and no task, streak or away period
\* refers to a missing user
NoDanglingRows ==
    /\ \A s \in streaks : (\E t \in tasks : t.id = s.task_id) /\ s.user_id \in users
    /\ \A t \in tasks : t.user_id \in users
    /\ \A p \in away_periods : p.user_id \in users

\* C21: deleting a task destroys its streak, and deleting a user deletes all
\* of that user's tasks, streaks and away periods: in every reachable state
\* no streak refers to a task that does not exist, and no task, streak or away
\* period refers to a user that does not exist.
C21_DeletesCascade ==
    /\ []NoDanglingRows
    /\ [][\A u \in Users, t \in tasks :
             (delete_task(u, t.id) /\ t.user_id = u) =>
                 /\ t \notin tasks'
                 /\ \A s \in streaks' : s.task_id # t.id
                 /\ \A s \in streaks : s.task_id # t.id => s \in streaks']_vars
    /\ [][\A u \in Users :
             delete_user(u) =>
                 /\ \A t \in tasks' : t.user_id # u
                 /\ \A x \in streaks' : x.user_id # u
                 /\ \A p \in away_periods' : p.user_id # u
                 /\ \A t \in tasks : t.user_id # u => t \in tasks']_vars

\* the first user has been deleted with task, streak and away period; the
\* second user's task and its streak are still there
C21_Witness ==
    /\ users = Users \ {Owner}
    /\ away_periods = {}
    /\ \E t \in tasks : \E s \in streaks : s.task_id = t.id /\ t.user_id \in users

\* C22: every task has exactly one streak record, created alongside the
\* task: right after create_task succeeds a streak of the new task exists,
\* and in every reachable state each task has one streak and none has more.
C22_OneStreakPerTask ==
    \A t \in tasks : Cardinality({s \in streaks : s.task_id = t.id}) = 1

\* some away period of the user is active and contains today
IsAway(user) ==
    \E p \in away_periods :
        /\ p.user_id = user
        /\ p.is_active
        /\ p.start_date <= date(utcnow) /\ date(utcnow) <= p.end_date

\* C23: while any away period of the owner is current, every task of that
\* owner with pause_on_away = true is excluded from the task list returned to
\* the owner; tasks with pause_on_away = false are never excluded for that
\* reason.
C23_PausedTasksNotListed ==
    resp.op = "get_tasks" =>
        \A t \in tasks :
            /\ (t.user_id = resp.user /\ t.pause_on_away /\ IsAway(resp.user))
                   => t.id \notin resp.ids
            /\ ( /\ t.user_id = resp.user
                 /\ ~t.pause_on_away
                 /\ resp.status \in {NoStatus, t.status} )
                   => t.id \in resp.ids

\* table T with every pause_on_away flag turned over
FlipPause(T) == {[t EXCEPT !.pause_on_away = ~@] : t \in T}

\* C24: away periods never influence the task lifecycle.  should_reset and
\* reset_recurring give the same result whatever pause_on_away is; the sweep
\* resets exactly the recurring tasks of the caller that are due, whatever
\* the away periods and the flags are, and gives the same table when run on
\* the flags turned over; and no away-period operation (create, update,
\* deactivate, delete) changes any field of any task.
C24_AwayNeverTouchesLifecycle ==
    /\ [](\A t \in tasks : \A b \in BOOLEAN :
             LET t2 == [t EXCEPT !.pause_on_away = b]
             IN  /\ should_reset(t2, utcnow) = should_reset(t, utcnow)
                 /\ reset_recurring(t2, utcnow) =
                        [reset_recurring(t, utcnow) EXCEPT !.pause_on_away = b])
    /\ [][\A u \in Users :
             reset_recurring_tasks(u) =>
                 /\ tasks' = {IF t.user_id = u /\ t.is_recurring /\ should_reset(t, utcnow)
                              THEN reset_recurring(t, utcnow) ELSE t : t \in tasks}
                 /\ tasks' = FlipPause(SweepTable(FlipPause(tasks), u, utcnow))]_vars
    /\ [][( \/ \E d \in AwayCreateInputs \cup PauseCreateInputs : create_away_period(d)
            \/ \E i \in PeriodIds, d \in AwayUpdateInputs \cup PauseUpdateInputs :
                   update_away_period(i, d)
            \/ \E i \in PeriodIds : deactivate_away_period(i)
            \/ \E i \in PeriodIds : delete_away_period(i) )
          => tasks' = tasks]_vars

\* the sweep has just reset a task with pause_on_away = true while an away
\* period of its owner is current
C24_Witness ==
    /\ resp.op = "reset_recurring_tasks"
    /\ resp.reset_count = 1
    /\ \E t \in tasks :
           /\ t.pause_on_away
           /\ t.status = PENDING
           /\ t.last_reset_date = utcnow
           /\ IsAway(t.user_id)

\* a request of user u for the task with id i
AddressedById(u, i) ==
    \/ get_task(u, i)
    \/ \E d \in OwnershipUpdates \cup UpdateInputs : update_task(u, i, d)
    \/ complete_task(u, i)
    \/ uncomplete_task(u, i)
    \/ delete_task(u, i)

\* any request of user u
RequestBy(u) ==
    \/ \E i \in AnyIds : AddressedById(u, i)
    \/ \E st \in TaskStatus \cup {NoStatus} : get_tasks(u, st)
    \/ reset_recurring_tasks(u)

\* C25: every task operation addressed by id (get, update, complete,
\* uncomplete, delete) fails with NotFound and leaves all stored state
\* unchanged when the id is unknown or the task is owned by another user than
\* the caller; hence no request of user A reads, changes or deletes a task
\* owned by user B.
C25_OnlyOwnTasks ==
    [][\A u \in Users :
          /\ \A i \in AnyIds :
                (AddressedById(u, i) /\ ~\E t \in tasks : t.id = i /\ t.user_id = u)
                    => /\ resp'.code = 404
                       /\ UNCHANGED <<tasks, nextId, streaks, away_periods, nextPeriodId,
                                      users, google_refresh_token, event_marks>>
          /\ RequestBy(u) =>
                \A t \in tasks :
                    t.user_id # u =>
                        /\ t \in tasks'
                        /\ (resp'.op \in {"get_task", "get_tasks"} /\ resp'.code = 200)
                               => t.id \notin resp'.ids]_vars

\* a delete was refused and both tasks are still stored
C25_Witness ==
    /\ resp = Response("delete_task", 404, 0)
    /\ \E t1, t2 \in tasks : t1.user_id = 1 /\ t2.user_id = 2

\* instant now is within the recurrence period of a task of kind type that
\* was completed at instant done
SamePeriod(type, done, now) ==
    IF type = DAILY THEN date(now) = date(done)
    ELSE IF type = WEEKLY THEN now - done < 7 * MinutesPerDay
    ELSE IF type = MONTHLY THEN year(now) = year(done) /\ month(now) = month(done)
    ELSE TRUE

\* C26: a recurring task completed at instant t is not reset by a sweep run
\* while the clock is still within the recurrence period of t (same calendar
\* day for Daily, less than 7 days later for Weekly, same calendar month for
\* Monthly), whatever completions and resets the task went through before,
\* also when it was reset in an earlier period and stayed Pending for a while
\* before being completed.  The sweep resets a task exactly when should_reset
\* holds of it.
C26_NotResetWithinPeriod ==
    \A t \in tasks :
        ( /\ t.is_recurring
          /\ t.type \in {DAILY, WEEKLY, MONTHLY}
          /\ t.status = COMPLETED
          /\ t.completed_at # NULL
          /\ t.completed_at <= utcnow
          /\ SamePeriod(t.type, t.completed_at, utcnow) )
        => /\ ~should_reset(t, utcnow)
           /\ t \in SweepTable(tasks, t.user_id, utcnow)

\* C27: under interleaved concurrent create-away-period requests of one
\* owner, each of which reads the active periods, checks overlap and then
\* inserts and commits, no two requests with overlapping ranges both succeed:
\* the active periods they leave never share a day.
C27_NoOverlapUnderConcurrency ==
    \A p \in away_periods : \A q \in away_periods \ {p} :
        (p.user_id = q.user_id /\ p.is_active /\ q.is_active)
            => (p.end_date < q.start_date \/ q.end_date < p.start_date)

\* C28: if the clock keeps advancing and the sweep is invoked infinitely
\* often for the owner, every recurring Daily, Weekly or Monthly task that is
\* Completed eventually returns to Pending, whether complete_task or
\* update_task made it Completed.
C28_CompletedReturnsToPending ==
    \A i \in TaskIds :
        (\E t \in tasks : /\ t.id = i
                          /\ t.is_recurring
                          /\ t.type \in RecurringKinds
                          /\ t.status = COMPLETED)
            ~> (\E t \in tasks : t.id = i /\ t.status = PENDING)

\* C29: unsync_task clears the calendar_event_id of the task if and only if
\* the remote event deletion succeeded: with no event reference it returns
\* true and changes nothing; when the remote delete fails it returns false
\* and the task keeps its calendar_event_id; when it succeeds the reference
\* is set to null and committed.
C29_UnsyncClearsIffDeleted ==
    [][\A u \in Users, t \in tasks, o \in UnsyncOutcomes :
          (unsync_task_from_calendar(u, t.id, o) /\ t.user_id = u) =>
              /\ (t.calendar_event_id = NULL) =>
                     (resp'.returned = "True" /\ tasks' = tasks)
              /\ (t.calendar_event_id # NULL /\ o = "failed") =>
                     (resp'.returned = "False" /\ tasks' = tasks)
              /\ (t.calendar_event_id # NULL /\ o = "deleted") =>
                     /\ resp'.returned = "True"
                     /\ tasks' = (tasks \ {t}) \cup
                                     {[t EXCEPT !.calendar_event_id = NULL]}
              /\ (tasks' # tasks) <=> (t.calendar_event_id # NULL /\ o = "deleted")]_vars

\* the remote delete failed: unsync_task returned false and the task still
\* names its event
C29_Witness ==
    /\ resp = UnsyncResponse(204, "False")
    /\ \E t \in tasks : t.user_id = Owner /\ t.calendar_event_id \in EventIds

=============================================================================
